---- MODULE Spec2Model ----
(***************************************************************************)
(* Model of the alert pipeline of app.py: the table loaded into the        *)
(* session, filter_alerts_by_timestamp, group_alerts, and the per-group    *)
(* sort of main().                                                         *)
(*                                                                         *)
(* Strings that the code splits are sequences of one-character strings.    *)
(* A naive datetime is a record [day, tick]: days counted from             *)
(* datetime.min (0001-01-01) and ticks within the day, TicksPerSecond      *)
(* ticks to the second.  Rows carry the columns the pipeline reads; title  *)
(* and tags are display-only and are left out.                             *)
(***************************************************************************)
EXTENDS Integers, Sequences, FiniteSets, TLC

\* ---------------------------------------------------------------- bounds
MaxRows == 2
MaxSortRows == 3
TicksPerSecond == 2

\* ------------------------------------------------------------- constants
SecondsPerDay == 86400
WeekDays == 7
UnixEpochDay == 719162
NoiseSource == "Doctor Droid"

TicksPerDay == SecondsPerDay * TicksPerSecond

Columns == {"id", "title", "source", "tags", "services", "infra_components",
            "data_timestamp", "text"}

\* ------------------------------------------------------ naive datetimes
Datetime(d, t) == [day |-> d, tick |-> t]

DatetimeMin == Datetime(0, 0)

\* a < b on naive datetimes
DtLess(a, b) == a.day < b.day \/ (a.day = b.day /\ a.tick < b.tick)

DtLeq(a, b) == a = b \/ DtLess(a, b)

\* dt - timedelta(days=n)
MinusDays(dt, n) == Datetime(dt.day - n, dt.tick)

\* dt.replace(hour=0, minute=0, second=0, microsecond=0)
Midnight(dt) == Datetime(dt.day, 0)

\* dt - k ticks, for 0 <= k <= TicksPerDay (used to build inputs)
MinusTicks(dt, k) ==
    IF dt.tick >= k THEN Datetime(dt.day, dt.tick - k)
    ELSE Datetime(dt.day - 1, dt.tick + TicksPerDay - k)

\* ------------------------------------------------------ parse_timestamp
\* A payload text is described by what json.loads and the path lookup find
\* in it: whether it is JSON at all, how many of the keys data / event /
\* data_timestamp are present along the path, and the value found there.
Payload(isjson, depth, numeric, value) ==
    [json |-> isjson, depth |-> depth, numeric |-> numeric, value |-> value]

None == [none |-> TRUE, day |-> 0, tick |-> 0]

Some(dt) == [none |-> FALSE, day |-> dt.day, tick |-> dt.tick]

\* datetime.fromtimestamp(epoch) in a zone utcoffset seconds east of UTC
FromTimestamp(epoch, utcoffset) ==
    LET local == epoch + utcoffset
    IN  Datetime(UnixEpochDay + (local \div SecondsPerDay),
                 (local % SecondsPerDay) * TicksPerSecond)

parse_timestamp(text, utcoffset) ==
    IF ~text.json THEN None
    ELSE IF text.depth < 3 THEN None
    ELSE IF ~text.numeric THEN None
    ELSE Some(FromTimestamp(text.value, utcoffset))

\* ------------------------------------------- filter_alerts_by_timestamp
Modes == {"all", "today", "yesterday", "last_week"}

\* A data_timestamp cell: either text of the form
\* YYYY-MM-DD HH:MM:SS.ffffff+HHMM (its wall-clock fields and its offset in
\* seconds), or text that does not match the format.
DataTimestamp(d, t, off) ==
    [wellformed |-> TRUE, day |-> d, tick |-> t, offset |-> off]

Malformed == [wellformed |-> FALSE, day |-> 0, tick |-> 0, offset |-> 0]

\* datetime.strptime(cell, "%Y-%m-%d %H:%M:%S.%f%z").replace(tzinfo=None):
\* ValueError on a mismatch, else the wall-clock fields, offset dropped.
strptimeLenient(cell) ==
    [raised |-> FALSE, dt |-> Datetime(cell.day, cell.tick)]

strptime(cell) ==
    IF cell.wellformed
    THEN [raised |-> FALSE, dt |-> Datetime(cell.day, cell.tick)]
    ELSE [raised |-> TRUE, dt |-> DatetimeMin]

start_timeNoMidnight(filter_option, now) ==
    IF filter_option = "today" THEN Midnight(now)
    ELSE IF filter_option = "yesterday" THEN Midnight(MinusDays(now, 1))
    ELSE MinusDays(now, WeekDays)

start_time(filter_option, now) ==
    IF filter_option = "today" THEN Midnight(now)
    ELSE IF filter_option = "yesterday" THEN Midnight(MinusDays(now, 1))
    ELSE Midnight(MinusDays(now, WeekDays))

end_time(now) == Midnight(now)

InWindowClosed(filter_option, timestamp, now) ==
    IF filter_option = "yesterday"
    THEN /\ DtLeq(start_time(filter_option, now), timestamp)
         /\ DtLeq(timestamp, end_time(now))
    ELSE DtLeq(start_time(filter_option, now), timestamp)

\* the test of lines 45-50
InWindow(filter_option, timestamp, now) ==
    IF filter_option = "yesterday"
    THEN /\ DtLeq(start_time(filter_option, now), timestamp)
         /\ DtLess(timestamp, end_time(now))
    ELSE DtLeq(start_time(filter_option, now), timestamp)

\* One iteration of the loop of lines 42-50 on the accumulator
\* [raised, rows]: a parse error aborts the call.
FilterStepPrepend(acc, alert, filter_option, now) ==
    LET p == strptime(alert.data_timestamp)
    IN  IF p.raised THEN [raised |-> TRUE, rows |-> acc.rows]
        ELSE IF InWindow(filter_option, p.dt, now)
        THEN [raised |-> FALSE, rows |-> <<alert>> \o acc.rows]
        ELSE acc

FilterStep(acc, alert, filter_option, now) ==
    LET p == strptime(alert.data_timestamp)
    IN  IF p.raised THEN [raised |-> TRUE, rows |-> acc.rows]
        ELSE IF InWindow(filter_option, p.dt, now)
        THEN [raised |-> FALSE, rows |-> Append(acc.rows, alert)]
        ELSE acc

RECURSIVE FilterLoop(_, _, _, _, _)
FilterLoop(rows, i, acc, filter_option, now) ==
    IF i > Len(rows) \/ acc.raised THEN acc
    ELSE FilterLoop(rows, i + 1, FilterStep(acc, rows[i], filter_option, now),
                    filter_option, now)

\* pd.DataFrame(list_of_rows): the columns are those of the rows, so a
\* frame built from the empty list has no columns at all.
DataFrame(rows) ==
    [columns |-> IF rows = <<>> THEN {} ELSE Columns, rows |-> rows]

\* Result [raised, df]; df is meaningful only when the call returned.
filter_alerts_by_timestamp(alerts_df, filter_option, now) ==
    IF filter_option = "all" THEN [raised |-> FALSE, df |-> alerts_df]
    ELSE IF filter_option \notin {"today", "yesterday", "last_week"}
    THEN [raised |-> FALSE, df |-> alerts_df]
    ELSE LET r == FilterLoop(alerts_df.rows, 1,
                             [raised |-> FALSE, rows |-> <<>>],
                             filter_option, now)
         IN  [raised |-> r.raised, df |-> DataFrame(r.rows)]

\* ---------------------------------------------------------- group_alerts
\* A services / infra_components cell: NaN, or a string.
NaN == [na |-> TRUE, str |-> <<>>]

Str(chars) == [na |-> FALSE, str |-> chars]

\* Python's s.split(", ")
RECURSIVE Split(_)
Split(s) ==
    IF s = <<>> THEN << <<>> >>
    ELSE IF Len(s) >= 2 /\ s[1] = "," /\ s[2] = " "
    THEN << <<>> >> \o Split(SubSeq(s, 3, Len(s)))
    ELSE LET r == Split(Tail(s))
         IN  << <<s[1]>> \o r[1] >> \o Tail(r)

\* str(cell).split(', ') if pd.notna(cell) else ['']
SplitCell(cell) == IF ~cell.na THEN Split(cell.str) ELSE << <<>> >>

\* "if names and names[0]"
Truthy(names) == names # <<>> /\ names[1] # <<>>

EmptyGrouped == [order |-> <<>>, lists |-> <<>>]

\* the dict grouped: its keys in insertion order and the list under each
AddTo(grouped, name, alert) ==
    IF name \in DOMAIN grouped.lists
    THEN [grouped EXCEPT !.lists[name] = Append(@, alert)]
    ELSE [order |-> Append(grouped.order, name),
          lists |-> [n \in DOMAIN grouped.lists \cup {name} |->
                       IF n = name THEN <<alert>> ELSE grouped.lists[n]]]

RECURSIVE AddAll(_, _, _)
AddAll(grouped, names, alert) ==
    IF names = <<>> THEN grouped
    ELSE AddAll(AddTo(grouped, Head(names), alert), Tail(names), alert)

\* alerts_df[alerts_df['source'] != 'Doctor Droid']
DropNoiseKeepAll(rows) == rows

DropNoise(rows) == SelectSeq(rows, LAMBDA a : a.source # NoiseSource)

\* One iteration of the loop of lines 61-80 on the accumulator
\* [grouped, ungrouped].
GroupRowServicesFirst(acc, alert) ==
    LET infra_components == SplitCell(alert.infra_components)
        services == SplitCell(alert.services)
    IN  IF Truthy(services)
        THEN [acc EXCEPT !.grouped = AddAll(@, services, alert)]
        ELSE IF Truthy(infra_components)
        THEN [acc EXCEPT !.grouped = AddAll(@, infra_components, alert)]
        ELSE [acc EXCEPT !.ungrouped = Append(@, alert)]

GroupRowNoContinue(acc, alert) ==
    LET infra_components == SplitCell(alert.infra_components)
        services == SplitCell(alert.services)
        g1 == IF Truthy(infra_components)
              THEN AddAll(acc.grouped, infra_components, alert)
              ELSE acc.grouped
    IN  IF Truthy(services)
        THEN [acc EXCEPT !.grouped = AddAll(g1, services, alert)]
        ELSE [grouped |-> g1, ungrouped |-> Append(acc.ungrouped, alert)]

GroupRow(acc, alert) ==
    LET infra_components == SplitCell(alert.infra_components)
        services == SplitCell(alert.services)
    IN  IF Truthy(infra_components)
        THEN [acc EXCEPT !.grouped = AddAll(@, infra_components, alert)]
        ELSE IF Truthy(services)
        THEN [acc EXCEPT !.grouped = AddAll(@, services, alert)]
        ELSE [acc EXCEPT !.ungrouped = Append(@, alert)]

RECURSIVE GroupLoop(_, _, _)
GroupLoop(rows, i, acc) ==
    IF i > Len(rows) THEN acc
    ELSE GroupLoop(rows, i + 1, GroupRow(acc, rows[i]))

\* Result [raised, grouped, ungrouped]; alerts_df['source'] is a KeyError
\* on a frame without that column.
group_alerts(df) ==
    IF "source" \notin df.columns
    THEN [raised |-> TRUE, grouped |-> EmptyGrouped, ungrouped |-> <<>>]
    ELSE LET r == GroupLoop(DropNoise(df.rows), 1,
                            [grouped |-> EmptyGrouped, ungrouped |-> <<>>])
         IN  [raised |-> FALSE, grouped |-> r.grouped,
              ungrouped |-> r.ungrouped]

\* ------------------------------------------------- the sort of main()
\* key=lambda x: parse_timestamp(x['text']) or datetime.min
SortKey(alert, utcoffset) ==
    LET ts == parse_timestamp(alert.text, utcoffset)
    IN  IF ts.none THEN DatetimeMin ELSE Datetime(ts.day, ts.tick)

Reverse(xs) == [i \in 1..Len(xs) |-> xs[Len(xs) + 1 - i]]

\* x goes behind every element whose key is <= its own (stable insertion)
RECURSIVE InsertByKey(_, _, _)
InsertByKey(xs, x, utcoffset) ==
    IF xs = <<>> THEN <<x>>
    ELSE IF DtLess(SortKey(x, utcoffset), SortKey(Head(xs), utcoffset))
    THEN <<x>> \o xs
    ELSE <<Head(xs)>> \o InsertByKey(Tail(xs), x, utcoffset)

\* a stable ascending sort, as list.sort is
RECURSIVE SortAscending(_, _, _)
SortAscending(xs, i, utcoffset) ==
    IF i = 0 THEN <<>>
    ELSE InsertByKey(SortAscending(xs, i - 1, utcoffset), xs[i], utcoffset)

sortedNoPreReverse(alerts, utcoffset) ==
    Reverse(SortAscending(alerts, Len(alerts), utcoffset))

\* sorted(alerts, key=..., reverse=True): the list is reversed, sorted
\* ascending and stably, and reversed again; alerts itself is not touched.
sorted(alerts, utcoffset) ==
    Reverse(SortAscending(Reverse(alerts), Len(alerts), utcoffset))

\* ------------------------------------------------------------- inputs
\* The wall clocks tried: one day, at midnight, one tick and one second
\* past it, and at noon.
ClockDay == UnixEpochDay + 19675

ClockSet == {Datetime(ClockDay, t) :
               t \in {0, 1, TicksPerSecond, TicksPerDay \div 2}}

NoonClock == Datetime(ClockDay, TicksPerDay \div 2)

CellOffsets == {0, 19800}

UtcOffsets == {0, 19800}

\* the instants around the window boundaries of clock c
BoundaryInstants(c) ==
    {c,
     MinusDays(c, WeekDays),
     MinusTicks(MinusDays(c, WeekDays), TicksPerSecond),
     Midnight(MinusDays(c, WeekDays)),
     MinusTicks(Midnight(MinusDays(c, WeekDays)), 1),
     Midnight(MinusDays(c, 1)),
     MinusTicks(Midnight(MinusDays(c, 1)), 1),
     Midnight(c),
     MinusTicks(Midnight(c), 1)}

\* cells with the two offsets at the two midnights of the yesterday window
TimestampCells(c) ==
    {DataTimestamp(dt.day, dt.tick, 0) : dt \in BoundaryInstants(c)}
    \cup {DataTimestamp(dt.day, dt.tick, off) :
            dt \in {Midnight(MinusDays(c, 1)), Midnight(c)},
            off \in CellOffsets}
    \cup {Malformed}

InfraCells ==
    {NaN, Str(<<>>), Str(<<"a">>), Str(<<"a", ",", " ", "b">>),
     Str(<<"a", ",", " ", ",", " ", "b">>), Str(<<",", " ", "a">>)}

ServiceCells == {NaN, Str(<<>>), Str(<<"a">>), Str(<<"c", ",", " ">>)}

Sources == {NoiseSource, "Datadog"}

NotJson == Payload(FALSE, 0, FALSE, 0)

Payloads ==
    {NotJson, Payload(TRUE, 2, FALSE, 0), Payload(TRUE, 3, FALSE, 0),
     Payload(TRUE, 3, TRUE, 1700000000), Payload(TRUE, 3, TRUE, 1700003600)}

Row(source, services, infra, cell, text) ==
    [id |-> 0, source |-> source, services |-> services,
     infra_components |-> infra, data_timestamp |-> cell, text |-> text]

NowCell(c) == DataTimestamp(c.day, c.tick, 0)

GroupRows(c) ==
    {Row("Datadog", sv, inf, NowCell(c), NotJson) :
        sv \in ServiceCells, inf \in InfraCells}
    \cup {Row(NoiseSource, sv, inf, NowCell(c), NotJson) :
            sv \in {NaN, Str(<<"a">>)}, inf \in InfraCells}

FilterRows(c) ==
    {Row("Datadog", NaN, Str(<<"a">>), cell, NotJson) :
        cell \in TimestampCells(c)}

SortRows(c) ==
    {Row("Datadog", NaN, Str(<<"a">>), NowCell(c), text) : text \in Payloads}

\* The inputs come in three families: tables that vary the cells
\* group_alerts reads, tables that vary data_timestamp under each clock,
\* and tables that vary the payload under each zone.
Families == {"group", "filter", "sort"}

ClocksOf(family) == IF family = "filter" THEN ClockSet ELSE {NoonClock}

ZonesOf(family) == IF family = "sort" THEN UtcOffsets ELSE {0}

MaxRowsOf(family) == IF family = "sort" THEN MaxSortRows ELSE MaxRows

RowsOf(family, c) ==
    IF family = "group" THEN GroupRows(c)
    ELSE IF family = "filter" THEN FilterRows(c)
    ELSE SortRows(c)

\* the table with the rows f[1], ..., f[n]; ids are the row numbers, so
\* they are unique
Table(f) ==
    [columns |-> Columns,
     rows |-> [i \in DOMAIN f |-> [f[i] EXCEPT !.id = i]]]

\* ---------------------------------------------------------------- state
VARIABLES
    excel,            \* the table in the selected file
    clock,            \* the wall clock datetime.now() reads
    utcoffset,        \* the local zone datetime.fromtimestamp() uses
    alerts_df,        \* st.session_state.alerts_df
    timestamp_filter, \* the mode picked in the select box
    now,              \* now of the last windowed filter call
    filtered_df,      \* main's filtered_df
    grouped,          \* main's grouped
    ungrouped,        \* main's ungrouped
    sorted_alerts,    \* sorted_alerts of each group of the render loop
    error,            \* the exception that ended the run, if any
    pc                \* where main() is

vars == <<excel, clock, utcoffset, alerts_df, timestamp_filter, now,
          filtered_df, grouped, ungrouped, sorted_alerts, error, pc>>

Unbound == [unbound |-> TRUE]

IsBound(v) == "unbound" \notin DOMAIN v

Init ==
    /\ \E family \in Families :
          \E c \in ClocksOf(family), u \in ZonesOf(family),
             n \in 0..MaxRowsOf(family) :
             \E f \in [1..n -> RowsOf(family, c)] :
                /\ excel = Table(f)
                /\ clock = c
                /\ utcoffset = u
    /\ alerts_df = Unbound
    /\ timestamp_filter = "all"
    /\ now = DatetimeMin
    /\ filtered_df = Unbound
    /\ grouped = EmptyGrouped
    /\ ungrouped = <<>>
    /\ sorted_alerts = <<>>
    /\ error = "none"
    /\ pc = "start"

\* lines 131-134: read the file unless the session already holds it
Load ==
    /\ pc = "start"
    /\ alerts_df' = IF ~IsBound(alerts_df) THEN excel ELSE alerts_df
    /\ pc' = "loaded"
    /\ UNCHANGED <<excel, clock, utcoffset, timestamp_filter, now,
                   filtered_df, grouped, ungrouped, sorted_alerts, error>>

\* lines 124-128 and 139: the mode comes from the select box
Filter ==
    /\ pc = "loaded"
    /\ \E filter_option \in Modes :
          LET r == filter_alerts_by_timestamp(alerts_df, filter_option, clock)
          IN  /\ timestamp_filter' = filter_option
              /\ now' = IF filter_option = "all" THEN now ELSE clock
              /\ IF r.raised
                 THEN /\ filtered_df' = filtered_df
                      /\ error' = "ValueError"
                      /\ pc' = "failed"
                 ELSE /\ filtered_df' = r.df
                      /\ error' = error
                      /\ pc' = "filtered"
    /\ UNCHANGED <<excel, clock, utcoffset, alerts_df, grouped, ungrouped,
                   sorted_alerts>>

\* line 142
Group ==
    /\ pc = "filtered"
    /\ LET r == group_alerts(filtered_df)
       IN  IF r.raised
           THEN /\ error' = "KeyError"
                /\ pc' = "failed"
                /\ UNCHANGED <<grouped, ungrouped>>
           ELSE /\ grouped' = r.grouped
                /\ ungrouped' = r.ungrouped
                /\ error' = error
                /\ pc' = "grouped"
    /\ UNCHANGED <<excel, clock, utcoffset, alerts_df, timestamp_filter, now,
                   filtered_df, sorted_alerts>>

\* lines 159-166, all the groups
Render ==
    /\ pc = "grouped"
    /\ sorted_alerts' = [g \in DOMAIN grouped.lists |->
                            sorted(grouped.lists[g], utcoffset)]
    /\ pc' = "rendered"
    /\ UNCHANGED <<excel, clock, utcoffset, alerts_df, timestamp_filter, now,
                   filtered_df, grouped, ungrouped, error>>

\* Streamlit runs the script again on the next interaction: the locals are
\* gone, the session state stays
Rerun ==
    /\ pc \in {"rendered", "failed"}
    /\ pc' = "start"
    /\ timestamp_filter' = "all"
    /\ now' = DatetimeMin
    /\ filtered_df' = Unbound
    /\ grouped' = EmptyGrouped
    /\ ungrouped' = <<>>
    /\ sorted_alerts' = <<>>
    /\ error' = "none"
    /\ UNCHANGED <<excel, clock, utcoffset, alerts_df>>

Next == Load \/ Filter \/ Group \/ Render \/ Rerun

Spec == Init /\ [][Next]_vars

\* ------------------------------------------------------------ properties
Returned == pc \in {"filtered", "grouped", "rendered"}

FilterCalled == pc \in {"filtered", "grouped", "rendered", "failed"}

Windowed == timestamp_filter \in {"today", "yesterday", "last_week"}

Grouped == pc \in {"grouped", "rendered"}

Elems(xs) == {xs[i] : i \in 1..Len(xs)}

Occurrences(xs, x) == Cardinality({i \in 1..Len(xs) : xs[i] = x})

\* the wall-clock instant written in a well-formed cell
Wall(cell) == Datetime(cell.day, cell.tick)

GroupsOf(a) == {g \in DOMAIN grouped.lists : a \in Elems(grouped.lists[g])}

EmptyOrAbsent(cell) == cell.na \/ cell.str = <<>>

RECURSIVE IsSubSeq(_, _)
IsSubSeq(xs, ys) ==
    IF xs = <<>> THEN TRUE
    ELSE IF ys = <<>> THEN FALSE
    ELSE IF Head(xs) = Head(ys) THEN IsSubSeq(Tail(xs), Tail(ys))
    ELSE IsSubSeq(xs, Tail(ys))

C2_NoiseExcluded ==
    Grouped =>
        \A a \in Elems(filtered_df.rows) :
            a.source = NoiseSource
            => GroupsOf(a) = {} /\ a \notin Elems(ungrouped)

C2_Witness ==
    /\ Grouped
    /\ \E a, b \in Elems(filtered_df.rows) :
          /\ a.source = NoiseSource
          /\ Truthy(SplitCell(a.infra_components))
          /\ b.source # NoiseSource
          /\ GroupsOf(b) # {}
          /\ GroupsOf(a) = {}

\* C3: every non-noise row is in some group or in the ungrouped list and
\* never in both; with both cells empty or absent it is in the ungrouped
\* list exactly once and in no group.
C3_PlacedOnce ==
    Grouped =>
        \A a \in Elems(filtered_df.rows) :
            a.source # NoiseSource
            => /\ (GroupsOf(a) # {}) # (a \in Elems(ungrouped))
               /\ (EmptyOrAbsent(a.services)
                   /\ EmptyOrAbsent(a.infra_components))
                  => /\ Occurrences(ungrouped, a) = 1
                     /\ GroupsOf(a) = {}

C3_Witness ==
    /\ Grouped
    /\ \E a, b \in Elems(filtered_df.rows) :
          /\ a.source # NoiseSource /\ b.source # NoiseSource
          /\ a.services = Str(<<>>) /\ a.infra_components = NaN
          /\ Occurrences(ungrouped, a) = 1
          /\ GroupsOf(b) # {}

\* C4: the returned mapping never has a group whose name is the empty
\* string.
C4_NoEmptyGroupName == Grouped => <<>> \notin DOMAIN grouped.lists

\* C5 as stated: in mode last_week a row exactly 7*24 hours before now is
\* kept and a row 7*24 hours and one second before now is dropped.
C5_LastWeekAsStated ==
    (Returned /\ timestamp_filter = "last_week") =>
        \A a \in Elems(alerts_df.rows) :
            /\ Wall(a.data_timestamp) = MinusDays(now, WeekDays)
               => a \in Elems(filtered_df.rows)
            /\ Wall(a.data_timestamp)
                 = MinusTicks(MinusDays(now, WeekDays), TicksPerSecond)
               => a \notin Elems(filtered_df.rows)

\* C5 amended: in mode last_week a row is kept exactly when its timestamp
\* is not before local midnight of the day seven days before now; so the
\* row 7*24 hours before now is kept, and the row one second earlier is
\* dropped only when now is less than a second past midnight.
C5_LastWeekFromMidnight ==
    (Returned /\ timestamp_filter = "last_week") =>
        \A a \in Elems(alerts_df.rows) :
            /\ a \in Elems(filtered_df.rows)
               <=> DtLeq(Datetime(now.day - 7, 0), Wall(a.data_timestamp))
            /\ Wall(a.data_timestamp) = MinusDays(now, WeekDays)
               => a \in Elems(filtered_df.rows)
            /\ Wall(a.data_timestamp)
                 = MinusTicks(MinusDays(now, WeekDays), TicksPerSecond)
               => (a \notin Elems(filtered_df.rows)
                   <=> now.tick < TicksPerSecond)

C5_Witness ==
    /\ Returned /\ timestamp_filter = "last_week"
    /\ now.tick >= TicksPerSecond
    /\ \E a, b \in Elems(alerts_df.rows) :
          /\ Wall(a.data_timestamp) = MinusDays(now, WeekDays)
          /\ Wall(b.data_timestamp)
               = MinusTicks(MinusDays(now, WeekDays), TicksPerSecond)
          /\ a \in Elems(filtered_df.rows)
          /\ b \in Elems(filtered_df.rows)

\* C6: in mode yesterday a row is kept exactly when yesterday's midnight
\* <= its timestamp (offset dropped) < today's midnight.
C6_YesterdayHalfOpen ==
    (Returned /\ timestamp_filter = "yesterday") =>
        \A a \in Elems(alerts_df.rows) :
            a \in Elems(filtered_df.rows)
            <=> /\ DtLeq(Datetime(now.day - 1, 0), Wall(a.data_timestamp))
                /\ DtLess(Wall(a.data_timestamp), Datetime(now.day, 0))

C6_Witness ==
    /\ Returned /\ timestamp_filter = "yesterday"
    /\ \E a, b \in Elems(alerts_df.rows) :
          /\ Wall(a.data_timestamp) = Datetime(now.day - 1, 0)
          /\ a.data_timestamp.offset # 0
          /\ Wall(b.data_timestamp) = Datetime(now.day, 0)
          /\ a \in Elems(filtered_df.rows)
          /\ b \notin Elems(filtered_df.rows)

\* C7: the filter returns a subsequence of its input, without repeats, and
\* the whole input in mode all.
C7_Subsequence ==
    Returned =>
        /\ IsSubSeq(filtered_df.rows, alerts_df.rows)
        /\ \A a \in Elems(filtered_df.rows) :
              Occurrences(filtered_df.rows, a) = 1
        /\ timestamp_filter = "all" => filtered_df = alerts_df

C7_Witness ==
    /\ Returned /\ Windowed
    /\ Len(filtered_df.rows) = 2
    /\ filtered_df.rows[1].data_timestamp # filtered_df.rows[2].data_timestamp

\* C8: in a windowed mode a malformed data_timestamp anywhere in the table
\* makes the call fail, and no result is bound.
C8_MalformedIsFatal ==
    (FilterCalled /\ Windowed
       /\ \E a \in Elems(alerts_df.rows) : ~a.data_timestamp.wellformed)
    => pc = "failed" /\ error = "ValueError" /\ ~IsBound(filtered_df)

C8_Witness ==
    /\ pc = "failed" /\ error = "ValueError" /\ timestamp_filter = "today"
    /\ Len(alerts_df.rows) = 2
    /\ Wall(alerts_df.rows[1].data_timestamp) = now
    /\ ~alerts_df.rows[2].data_timestamp.wellformed

Extracted(a) == parse_timestamp(a.text, utcoffset)

SameExtracted(a, b) == Extracted(a) = Extracted(b)

\* C9: each rendered list is a permutation of its group, by extracted
\* timestamp descending, the alerts without one behind all the others, and
\* alerts with identical extracted timestamps (or both without) in the
\* order they had in the group; the group itself is still in table order.
C9_RenderSort ==
    pc = "rendered" =>
        /\ DOMAIN sorted_alerts = DOMAIN grouped.lists
        /\ \A g \in DOMAIN grouped.lists :
              LET s == sorted_alerts[g]
                  a == grouped.lists[g]
              IN  /\ Len(s) = Len(a)
                  /\ \A x \in Elems(a) : Occurrences(s, x) = Occurrences(a, x)
                  /\ \A i, j \in 1..Len(s) :
                        i < j =>
                          /\ Extracted(s[i]).none => Extracted(s[j]).none
                          /\ (~Extracted(s[i]).none /\ ~Extracted(s[j]).none)
                             => DtLeq(Extracted(s[j]), Extracted(s[i]))
                  /\ \A x \in Elems(a) :
                        SelectSeq(s, LAMBDA y : SameExtracted(x, y))
                          = SelectSeq(a, LAMBDA y : SameExtracted(x, y))
                  /\ IsSubSeq(a, filtered_df.rows)

C9_Witness ==
    /\ pc = "rendered"
    /\ utcoffset # 0
    /\ \E g \in DOMAIN grouped.lists :
          LET s == sorted_alerts[g]
              a == grouped.lists[g]
          IN  /\ Len(a) = 3
              /\ Extracted(a[1]).none
              /\ ~Extracted(a[2]).none
              /\ Extracted(a[3]) = Extracted(a[2])
              /\ s = <<a[2], a[3], a[1]>>

\* C10: on a table whose data_timestamp cells are all well-formed the run
\* never fails, whatever the mode, and a window that selects no row yields
\* an empty mapping and an empty ungrouped list.
C10_PipelineNeverFails ==
    (IsBound(alerts_df)
       /\ \A a \in Elems(alerts_df.rows) : a.data_timestamp.wellformed)
    => /\ pc # "failed"
       /\ (Grouped /\ filtered_df.rows = <<>>)
          => grouped = EmptyGrouped /\ ungrouped = <<>>

====
